---------------------------- MODULE Spec2Model ----------------------------
(***************************************************************************)
(* Model of parse.py, the IPPcode24 source-to-XML parser with statistics.  *)
(*                                                                         *)
(* Python strings are TLA+ strings; Python index i is index i+1 here.      *)
(* A dict that is only looked up by key (stats.labels, stats.jumps) is a   *)
(* function; a dict whose iteration order is read (stats.used_instructions)*)
(* is the sequence of its <<key, value>> items in insertion order.         *)
(***************************************************************************)
EXTENDS Integers, Sequences, FiniteSets, TLC

VARIABLES
    pc,          \* where main() is: "start", "scan", "stats", "done", "exit"
    args,        \* sys.argv[1:]
    stdin_read,  \* the lines main() has taken from sys.stdin so far
    first_line,  \* main(): first_line
    order,       \* global order
    stats,       \* global stats (a Stats object)
    stdout,      \* the <instruction> elements printed so far
    jumpstats,   \* main(): fwjumps, backjumps, badjumps
    argi,        \* main(): position of the statistics loop in args
    f,           \* main(): name of the file f is open on
    files,       \* the statistics files: name -> lines written
    buffer,      \* main(): buffer of the last --frequent request
    exit_code,   \* the process's exit status, once pc = "exit"
    err          \* what ended the process ("" while it runs)

vars == <<pc, args, stdin_read, first_line, order, stats, stdout, jumpstats,
          argi, f, files, buffer, exit_code, err>>

-----------------------------------------------------------------------------
(* Bounds of the model. *)

\* Lines read from stdin in one run (the header line included).
MaxLines == 4

\* Operands on one generated instruction line of SpecValidate.
MaxOperands == 4

-----------------------------------------------------------------------------
(* str methods *)

Whitespace == {" ", "\t", "\n"}
Digits == {"0", "1", "2", "3", "4", "5", "6", "7", "8", "9"}
Letters ==
    {"a", "b", "c", "d", "e", "f", "g", "h", "i", "j", "k", "l", "m",
     "n", "o", "p", "q", "r", "s", "t", "u", "v", "w", "x", "y", "z",
     "A", "B", "C", "D", "E", "F", "G", "H", "I", "J", "K", "L", "M",
     "N", "O", "P", "Q", "R", "S", "T", "U", "V", "W", "X", "Y", "Z"}

At(s, i) == SubSeq(s, i, i)

From(s, i) == SubSeq(s, i, Len(s))

startswith(s, p) == Len(s) >= Len(p) /\ SubSeq(s, 1, Len(p)) = p

RECURSIVE lstrip(_)
lstrip(s) ==
    IF s # "" /\ At(s, 1) \in Whitespace THEN lstrip(From(s, 2)) ELSE s

RECURSIVE rstrip(_)
rstrip(s) ==
    IF s # "" /\ At(s, Len(s)) \in Whitespace
    THEN rstrip(SubSeq(s, 1, Len(s) - 1))
    ELSE s

strip(s) == rstrip(lstrip(s))

\* Position of the first occurrence of character c in s, 0 when there is none.
RECURSIVE find(_, _, _)
find(s, c, i) ==
    IF i > Len(s) THEN 0
    ELSE IF At(s, i) = c THEN i
    ELSE find(s, c, i + 1)

\* s.split(c, 1)
split1(s, c) ==
    LET i == find(s, c, 1)
    IN  IF i = 0 THEN <<s>> ELSE <<SubSeq(s, 1, i - 1), From(s, i + 1)>>

\* s.split(c)
RECURSIVE split(_, _)
split(s, c) ==
    LET i == find(s, c, 1)
    IN  IF i = 0 THEN <<s>>
        ELSE <<SubSeq(s, 1, i - 1)>> \o split(From(s, i + 1), c)

\* The leading run of non-whitespace characters of s.
RECURSIVE word(_)
word(s) ==
    IF s = "" \/ At(s, 1) \in Whitespace THEN ""
    ELSE At(s, 1) \o word(From(s, 2))

\* s.split(): the runs of non-whitespace characters of s
RECURSIVE split_ws(_)
split_ws(s) ==
    LET t == lstrip(s)
        w == word(t)
    IN  IF t = "" THEN <<>>
        ELSE <<w>> \o split_ws(From(t, Len(w) + 1))

\* sep.join(seq)
RECURSIVE join(_, _)
join(sep, seq) ==
    IF seq = <<>> THEN ""
    ELSE IF Len(seq) = 1 THEN seq[1]
    ELSE seq[1] \o sep \o join(sep, Tail(seq))

\* Code points of the characters opcodes are written with, in ASCII order.
Ascii == "0123456789ABCDEFGHIJKLMNOPQRSTUVWXYZ"

ord(c) == find(Ascii, c, 1)

\* a < b on str: lexicographic by code point
RECURSIVE str_lt(_, _)
str_lt(a, b) ==
    IF b = "" THEN FALSE
    ELSE IF a = "" THEN TRUE
    ELSE IF At(a, 1) = At(b, 1) THEN str_lt(From(a, 2), From(b, 2))
    ELSE ord(At(a, 1)) < ord(At(b, 1))

\* list.sort() on a list of distinct str: insertion of each item in order
RECURSIVE insert_sorted(_, _)
insert_sorted(seq, x) ==
    IF seq = <<>> THEN <<x>>
    ELSE IF str_lt(x, seq[1]) THEN <<x>> \o seq
    ELSE <<seq[1]>> \o insert_sorted(Tail(seq), x)

RECURSIVE sort(_)
sort(seq) ==
    IF seq = <<>> THEN <<>>
    ELSE insert_sorted(sort(Tail(seq)), seq[1])


-----------------------------------------------------------------------------
(* The operand patterns (re.fullmatch of each pattern) *)

\* [a-zA-Z_\-&%*$!?]
IdentStart == Letters \cup {"_", "-", "&", "%", "*", "$", "!", "?"}

\* [a-zA-Z0-9_\-&%*$!?]
IdentChar == IdentStart \cup Digits

RECURSIVE all_in(_, _)
all_in(s, chars) ==
    s = "" \/ (At(s, 1) \in chars /\ all_in(From(s, 2), chars))

\* LABEL = [a-zA-Z_\-&%*$!?][a-zA-Z0-9_\-&%*$!?]*
LABEL(s) == s # "" /\ At(s, 1) \in IdentStart /\ all_in(From(s, 2), IdentChar)

\* VAR = (LF|TF|GF)@ followed by the LABEL pattern
VAR(s) ==
    /\ \E frame \in {"LF@", "TF@", "GF@"} : startswith(s, frame)
    /\ LABEL(From(s, 4))

\* TYPE = (int|bool|string)
TYPE(s) == s \in {"int", "bool", "string"}

\* INT_CONST = int@[-+]?\d+
INT_CONST(s) ==
    /\ startswith(s, "int@")
    /\ LET t == From(s, 5)
           d == IF t # "" /\ At(t, 1) \in {"-", "+"} THEN From(t, 2) ELSE t
       IN  d # "" /\ all_in(d, Digits)

\* BOOL_CONST = bool@(true|false)
BOOL_CONST(s) == s \in {"bool@true", "bool@false"}

\* [^#\s\\]*(?:\\[\d]{3}[^#\s\\]*)* : every backslash is followed by three
\* digits, and no other character is '#' or whitespace
RECURSIVE string_body(_)
string_body(s) ==
    IF s = "" THEN TRUE
    ELSE IF At(s, 1) = "\\"
    THEN /\ Len(s) >= 4
         /\ all_in(SubSeq(s, 2, 4), Digits)
         /\ string_body(From(s, 5))
    ELSE At(s, 1) \notin (Whitespace \cup {"#"}) /\ string_body(From(s, 2))

\* STRING_CONST = string@[^#\s\\]*(?:\\[\d]{3}[^#\s\\]*)*
STRING_CONST(s) == startswith(s, "string@") /\ string_body(From(s, 8))

\* NIL_CONST = nil@nil
NIL_CONST(s) == s = "nil@nil"

-----------------------------------------------------------------------------
(* instruction_dict *)

NoArg == {"RETURN", "CREATEFRAME", "PUSHFRAME", "POPFRAME", "BREAK"}
VarArg == {"DEFVAR", "POPS"}
LabelArg == {"CALL", "LABEL", "JUMP"}
SymbArg == {"PUSHS", "EXIT", "DPRINT", "WRITE"}
VarSymb == {"MOVE", "NOT", "INT2CHAR", "TYPE", "STRLEN"}
VarType == {"READ"}
VarSymbSymb ==
    {"ADD", "SUB", "MUL", "IDIV", "LT", "GT", "EQ", "AND", "OR",
     "STRI2INT", "CONCAT", "GETCHAR", "SETCHAR"}
LabelSymbSymb == {"JUMPIFEQ", "JUMPIFNEQ"}

Opcodes ==
    NoArg \cup VarArg \cup LabelArg \cup SymbArg \cup VarSymb \cup VarType
          \cup VarSymbSymb \cup LabelSymbSymb

instruction_dict ==
    [opcode \in Opcodes |->
        CASE opcode \in NoArg -> <<>>
          [] opcode \in VarArg -> <<"var">>
          [] opcode \in LabelArg -> <<"label">>
          [] opcode \in SymbArg -> <<"symb">>
          [] opcode \in VarSymb -> <<"var", "symb">>
          [] opcode \in VarType -> <<"var", "type">>
          [] opcode \in VarSymbSymb -> <<"var", "symb", "symb">>
          [] opcode \in LabelSymbSymb -> <<"label", "symb", "symb">>]

\* The opcodes print_xml records in stats.jumps.
JumpOpcodes == {"CALL", "JUMP", "JUMPIFEQ", "JUMPIFNEQ"}

-----------------------------------------------------------------------------
(* The process: what the functions below change. A value m of this record  *)
(* is the globals order and stats, the printed output, and whether (and    *)
(* how) the process has ended.                                             *)

Running(m) == m.err = ""

\* sys.exit(code), or an uncaught exception (exit status 1)
Exit(m, code, why) == [m EXCEPT !.exit_code = code, !.err = why]

Token(token_type, token_value) ==
    [token_type |-> token_type, token_value |-> token_value]

\* match_pattern's result: the Token, or no Token when it exits with 23.
match_pattern(operand) ==
    IF NIL_CONST(operand) \/ INT_CONST(operand) \/ BOOL_CONST(operand)
                          \/ STRING_CONST(operand)
    THEN <<Token("const", operand)>>
    ELSE IF TYPE(operand) THEN <<Token("type", operand)>>
    ELSE IF VAR(operand) THEN <<Token("var", operand)>>
    ELSE IF LABEL(operand) THEN <<Token("label", operand)>>
    ELSE <<>>


-----------------------------------------------------------------------------
(* dict *)

EmptyDict == [k \in {} |-> 0]

\* d[k] = v
dict_set(d, k, v) ==
    [x \in DOMAIN d \cup {k} |-> IF x = k THEN v ELSE d[x]]

\* The keys of a dict kept as its items in insertion order.
keys(items) == {items[i][1] : i \in DOMAIN items}

\* list(items.values())
values(items) == [i \in DOMAIN items |-> items[i][2]]

\* del items[k]: the other items keep their order
RECURSIVE del(_, _)
del(items, k) ==
    IF items = <<>> THEN <<>>
    ELSE IF items[1][1] = k THEN Tail(items)
    ELSE <<items[1]>> \o del(Tail(items), k)

\* max(seq) of a non-empty list of numbers
max(seq) == CHOOSE v \in {seq[i] : i \in DOMAIN seq} :
                \A i \in DOMAIN seq : seq[i] <= v

-----------------------------------------------------------------------------
(* print_xml *)

\* print_xml, lines 190-193: one more occurrence of opcode. A new opcode
\* goes to the end of the dict.
count_instruction(used_instructions, opcode) ==
    IF opcode \in keys(used_instructions)
    THEN [i \in DOMAIN used_instructions |->
            IF used_instructions[i][1] = opcode
            THEN <<opcode, used_instructions[i][2] + 1>>
            ELSE used_instructions[i]]
    ELSE Append(used_instructions, <<opcode, 1>>)

\* A label_name defined again is kept when the check of line 199 is left out.
set_label_overwrite(labels, label_name, label_order) ==
    <<dict_set(labels, label_name, label_order)>>

\* print_xml, lines 199-203: the new stats.labels, or nothing when label_name
\* is a duplicate (the process exits).
set_label(labels, label_name, label_order) ==
    IF label_name \in DOMAIN labels THEN <<>>
    ELSE <<dict_set(labels, label_name, label_order)>>

\* The first reference to label_name is kept instead of the last one.
set_jump_first(jumps, label_name, position) ==
    IF label_name \in DOMAIN jumps THEN jumps
    ELSE dict_set(jumps, label_name, position)

\* print_xml, line 208: stats.jumps[label_name] = order
set_jump(jumps, label_name, position) == dict_set(jumps, label_name, position)

\* The locals token_type and token_value of print_xml's loop: <<>> while
\* neither is bound, else <<token_type, token_value>>. Lines 219-238 bind
\* both or, for a constant none of the four tests takes, leave them as the
\* previous iteration left them.
bind_token(token, local) ==
    LET v == token.token_value
    IN  IF token.token_type = "const"
        THEN IF startswith(v, "string@")
             THEN <<"string", From(v, Len("string@") + 1)>>
             ELSE IF startswith(v, "bool@")
             THEN <<"bool", From(v, Len("bool@") + 1)>>
             ELSE IF startswith(v, "int@")
             THEN <<"int", From(v, Len("int@") + 1)>>
             ELSE IF v = "nil"
             THEN <<"nil", v>>
             ELSE local
        ELSE <<token.token_type, token.token_value>>

\* print_xml, lines 217-244: the <argN> elements printed for tokens, and
\* whether line 241 read an unbound local (UnboundLocalError).
RECURSIVE print_args(_, _, _)
print_args(tokens, local, printed) ==
    IF tokens = <<>> THEN [args |-> printed, raised |-> FALSE]
    ELSE LET now == bind_token(tokens[1], local)
         IN  IF now = <<>>
             THEN [args |-> printed, raised |-> TRUE]
             ELSE print_args(Tail(tokens), now,
                       Append(printed, [type |-> now[1], value |-> now[2]]))

\* An <instruction> element of the output; closed once </instruction> is
\* printed.
Element(position, opcode, arguments, closed) ==
    [order |-> position, opcode |-> opcode, args |-> arguments,
     closed |-> closed]

print_xml(instruction_array, m) ==
    LET order1 == m.order + 1
        opcode == instruction_array[1]
        used1 == count_instruction(m.stats.used_instructions, opcode)
        label_name == instruction_array[2].token_value
        labels1 == IF opcode = "LABEL"
                   THEN set_label(m.stats.labels, label_name, order1)
                   ELSE <<m.stats.labels>>
        m1 == [m EXCEPT !.order = order1, !.stats.used_instructions = used1]
        jumps1 == IF opcode \in JumpOpcodes
                  THEN set_jump(m.stats.jumps, label_name, order1)
                  ELSE m.stats.jumps
        m2 == [m1 EXCEPT !.stats.labels = labels1[1], !.stats.jumps = jumps1]
        out == print_args(Tail(instruction_array), <<>>, <<>>)
        m3 == [m2 EXCEPT !.stdout = Append(@,
                   Element(order1, opcode, out.args, ~out.raised))]
    IN  IF labels1 = <<>> THEN Exit(m1, 23, "Duplicate label.")
        ELSE IF out.raised THEN Exit(m3, 1, "UnboundLocalError")
        ELSE m3

-----------------------------------------------------------------------------
(* parse_instruction *)

\* The role 'symb' also takes a label.
satisfies_loose(pattern, token) ==
    CASE pattern = "var" -> token.token_type = "var"
      [] pattern = "symb" -> token.token_type \in {"var", "const", "label"}
      [] pattern = "type" -> token.token_type = "type"
      [] pattern = "label" -> token.token_type = "label"

\* parse_instruction, lines 154-169: whether token passes the test of its
\* pattern.
satisfies(pattern, token) ==
    CASE pattern = "var" -> token.token_type = "var"
      [] pattern = "symb" -> token.token_type \in {"var", "const"}
      [] pattern = "type" -> token.token_type = "type"
      [] pattern = "label" -> token.token_type = "label"

\* The message of lines 154-169 for a pattern that is not satisfied.
must_be(pattern) ==
    CASE pattern = "var" -> "Argument must be a variable"
      [] pattern = "symb" -> "Argument must be a variable or constant"
      [] pattern = "type" -> "Argument must be a type"
      [] pattern = "label" -> "Argument must be a label"

\* parse_instruction, lines 147-169: the loop over arg_patterns from its
\* i-th pattern on; the message it exits with, "" when it runs to its end.
RECURSIVE check_patterns(_, _, _)
check_patterns(arg_patterns, instruction_array, i) ==
    IF i > Len(arg_patterns) THEN ""
    ELSE IF i > Len(instruction_array) - 1
    THEN "Not enough arguments provided"
    ELSE IF ~satisfies(arg_patterns[i], instruction_array[i + 1])
    THEN must_be(arg_patterns[i])
    ELSE check_patterns(arg_patterns, instruction_array, i + 1)

parse_instruction(instruction_array, m) ==
    LET opcode == instruction_array[1]
        arg_patterns == instruction_dict[opcode]
        num_args == Len(instruction_array) - 1
        message == check_patterns(arg_patterns, instruction_array, 1)
    IN  IF opcode \notin DOMAIN instruction_dict
        THEN Exit(m, 23, "Unknown opcode")
        ELSE IF message # "" THEN Exit(m, 23, message)
        ELSE IF num_args > Len(arg_patterns)
        THEN Exit(m, 23, "Too many arguments provided")
        ELSE print_xml(instruction_array, m)

-----------------------------------------------------------------------------
(* instruction_scan *)

\* instruction_scan, lines 122-124: the Tokens of the arguments, or nothing
\* when match_pattern exits on one of them.
RECURSIVE match_all(_)
match_all(operands) ==
    IF operands = <<>> THEN <<<<>>>>
    ELSE LET token == match_pattern(operands[1])
             rest == match_all(Tail(operands))
         IN  IF token = <<>> \/ rest = <<>> THEN <<>>
             ELSE <<token \o rest[1]>>

instruction_scan(instruction, m) ==
    LET parts == split1(instruction, "#")
        instruction_part == strip(parts[1])
        m1 == IF Len(parts) > 1
              THEN [m EXCEPT !.stats.comments = @ + 1]
              ELSE m
        opcode_args == split_ws(instruction_part)
        opcode == opcode_args[1]
        tokens == match_all(Tail(opcode_args))
    IN  IF startswith(instruction, "#") \/ strip(instruction) = "" THEN m
        ELSE IF opcode_args = <<>> THEN Exit(m1, 1, "IndexError")
        ELSE IF opcode \notin DOMAIN instruction_dict
        THEN Exit(m1, 22, "Unknown opcode")
        ELSE IF tokens = <<>>
        THEN Exit(m1, 23, "Operand pattern mismatch")
        ELSE parse_instruction(<<opcode>> \o tokens[1], m1)


-----------------------------------------------------------------------------
(* main: the post-pass analyses *)

\* A jump whose label is not defined is counted as a bad jump.
count_jumps_undefined(labels, jumps) ==
    LET known == DOMAIN jumps \cap DOMAIN labels
    IN  [fwjumps |-> Cardinality({l \in known : jumps[l] < labels[l]}),
         backjumps |-> Cardinality({l \in known : jumps[l] > labels[l]}),
         badjumps |-> Cardinality(DOMAIN jumps \ DOMAIN labels)]

\* main, lines 329-341: the three counters after the loop over
\* stats.jumps.items(); each item adds to at most one of them.
count_jumps(labels, jumps) ==
    LET known == DOMAIN jumps \cap DOMAIN labels
    IN  [fwjumps |-> Cardinality({l \in known : jumps[l] < labels[l]}),
         backjumps |-> Cardinality({l \in known : jumps[l] > labels[l]}),
         badjumps |-> Cardinality({l \in known : jumps[l] = labels[l]})]

\* main, lines 375 and 379: current_capacity < stats.loc * 0.35, which for
\* these integers is the exact comparison of current_capacity with 35% of loc
below_threshold(current_capacity, loc) == current_capacity * 100 < loc * 35

\* The last of the opcodes used max_usage times is taken.
frequent_instr_last(used_instructions, max_usage) ==
    used_instructions[
        CHOOSE i \in DOMAIN used_instructions :
            /\ used_instructions[i][2] = max_usage
            /\ \A j \in DOMAIN used_instructions :
                   used_instructions[j][2] = max_usage => j <= i][1]

\* main, line 381: the first key, in the dict's order, used max_usage times
frequent_instr(used_instructions, max_usage) ==
    used_instructions[
        CHOOSE i \in DOMAIN used_instructions :
            /\ used_instructions[i][2] = max_usage
            /\ \A j \in DOMAIN used_instructions :
                   used_instructions[j][2] = max_usage => i <= j][1]

\* main, lines 379-384: the while loop, from a state of its variables. max()
\* of an empty stats.used_instructions raises ValueError.
RECURSIVE find_frequent(_, _, _, _)
find_frequent(used_instructions, loc, current_capacity, picked) ==
    IF ~below_threshold(current_capacity, loc)
    THEN [buffer |-> picked, used_instructions |-> used_instructions,
          raised |-> FALSE]
    ELSE IF used_instructions = <<>>
    THEN [buffer |-> picked, used_instructions |-> used_instructions,
          raised |-> TRUE]
    ELSE LET max_usage == max(values(used_instructions))
             instr == frequent_instr(used_instructions, max_usage)
         IN  find_frequent(del(used_instructions, instr), loc,
                           current_capacity + max_usage,
                           Append(picked, instr))

\* str(n) of an integer n >= 0
RECURSIVE str(_)
str(n) ==
    IF n < 10 THEN At("0123456789", n + 1)
    ELSE str(n \div 10) \o At("0123456789", (n % 10) + 1)

-----------------------------------------------------------------------------
(* The inputs of a run *)

\* Command lines.
ArgVectors ==
    { <<>>,
      <<"--help">>,
      <<"--help", "--loc">>,
      <<"--stats">>,
      <<"--loc">>,
      <<"--stats=f", "--frequent", "--frequent">>,
      <<"--stats=f", "--frequent", "--stats=g", "--frequent">>,
      <<"--stats=f", "--loc", "--comments", "--labels", "--jumps", "--eol",
        "--print=hi", "--frequent">>,
      <<"--stats=f", "--fwjumps", "--backjumps", "--badjumps", "--bogus">> }

\* Lines of the input, as sys.stdin gives them without their line ends.
Lines ==
    { "", "# c", ".IPPcode24",
      "JUMP x", "LABEL x", "CALL y",
      "  MOVE GF@a  nil@nil", "WRITE int@-42 # c",
      "JUMPIFEQ x GF@a string@a\\032b", "RETURN",
      "PUSHS nil@nil", "FOO", "JUMP", "DEFVAR GF@1bad" }

-----------------------------------------------------------------------------
(* main *)

\* class Stats, __init__
Stats ==
    [loc |-> 0, comments |-> 0, labels |-> EmptyDict, jumps |-> EmptyDict,
     used_instructions |-> <<>>, eol |-> 0]

Init ==
    /\ pc = "start"
    /\ args \in ArgVectors
    /\ stdin_read = <<>>
    /\ first_line = TRUE
    /\ order = 0
    /\ stats = Stats
    /\ stdout = <<>>
    /\ jumpstats = <<>>
    /\ argi = 1
    /\ f = ""
    /\ files = EmptyDict
    /\ buffer = <<>>
    /\ exit_code = 0
    /\ err = ""

\* sys.exit(code) in main, or an uncaught exception
Terminate(code, why) == pc' = "exit" /\ exit_code' = code /\ err' = why

\* main, lines 253-302: the command line is checked before any input is read.
Startup ==
    /\ pc = "start"
    /\ IF \E i \in DOMAIN args : args[i] = "--help"
       THEN IF args[1] # "--help" \/ Len(args) > 1
            THEN Terminate(10, "The --help parameter cannot be combined")
            ELSE Terminate(0, "Usage")
       ELSE IF \E i \in DOMAIN args :
                   ~startswith(args[i], "--stats=") /\ args[i] = "--stats"
       THEN Terminate(10, "Missing file name after --stats.")
       ELSE pc' = "scan" /\ UNCHANGED <<exit_code, err>>
    /\ first_line' = TRUE
    /\ UNCHANGED <<args, stdin_read, order, stats, stdout, jumpstats, argi,
                   f, files, buffer>>

\* Blank lines are counted as instructions as well.
is_instruction_or_blank(line) == ~startswith(line, "#")

\* main, lines 315-320: a stripped line that is neither a comment nor empty
is_instruction(line) == ~startswith(line, "#") /\ line # ""

\* main, lines 304-323: one iteration of the loop over sys.stdin.
ReadLine(raw) ==
    /\ pc = "scan"
    /\ Len(stdin_read) < MaxLines
    /\ stdin_read' = Append(stdin_read, raw)
    /\ LET line == strip(raw)
           m0 == [order |-> order,
                  stats |-> [stats EXCEPT !.eol = @ + 1],
                  stdout |-> stdout, exit_code |-> 0, err |-> ""]
           m == IF first_line
                THEN IF line # ".IPPcode24"
                     THEN Exit(m0, 22,
                               "Missing or incorrect '.IPPcode24' header.")
                     ELSE m0
                ELSE IF startswith(line, "#")
                THEN [m0 EXCEPT !.stats.comments = @ + 1]
                ELSE IF ~is_instruction(line)
                THEN m0
                ELSE instruction_scan(line,
                         [m0 EXCEPT !.stats.loc = @ + 1])
       IN  /\ first_line' = (first_line /\ ~Running(m))
           /\ order' = m.order
           /\ stats' = m.stats
           /\ stdout' = m.stdout
           /\ exit_code' = m.exit_code
           /\ err' = m.err
           /\ pc' = IF Running(m) THEN "scan" ELSE "exit"
    /\ UNCHANGED <<args, jumpstats, argi, f, files, buffer>>

\* main, lines 325-345: sys.stdin is at its end; the jump counters are set
\* and the first statistics file is opened.
EndOfInput ==
    /\ pc = "scan"
    /\ jumpstats' = IF Len(args) > 0 /\ ~startswith(args[1], "--help")
                    THEN <<count_jumps(stats.labels, stats.jumps)>>
                    ELSE jumpstats
    /\ IF Len(args) > 0 /\ startswith(args[1], "--stats=")
       THEN LET filename == split(args[1], "=")[2]
            IN  /\ f' = filename
                /\ files' = dict_set(files, filename, "")
                /\ argi' = 2
                /\ pc' = "stats"
       ELSE pc' = "done" /\ UNCHANGED <<f, files, argi>>
    /\ UNCHANGED <<args, stdin_read, first_line, order, stats, stdout,
                   buffer, exit_code, err>>

\* f.write(text)
write(text) == files' = [files EXCEPT ![f] = @ \o text]

\* main, lines 347-392: one iteration of the loop over args[1:].
StatArg ==
    /\ pc = "stats"
    /\ argi <= Len(args)
    /\ argi' = argi + 1
    /\ LET arg == args[argi]
           counted == jumpstats[1]
           found == find_frequent(stats.used_instructions, stats.loc, 0, <<>>)
       IN  IF startswith(arg, "--stats=")
           THEN /\ f' = split(arg, "=")[2]
                /\ files' = dict_set(files, split(arg, "=")[2], "")
                /\ UNCHANGED <<pc, stats, buffer, exit_code, err>>
           ELSE IF arg = "--frequent"
           THEN /\ stats' = [stats EXCEPT
                                !.used_instructions = found.used_instructions]
                /\ IF found.raised
                   THEN /\ Terminate(1, "ValueError")
                        /\ buffer' = found.buffer
                        /\ UNCHANGED <<f, files>>
                   ELSE /\ buffer' = sort(found.buffer)
                        /\ write(join(",", sort(found.buffer)) \o "\n")
                        /\ UNCHANGED <<pc, f, exit_code, err>>
           ELSE IF arg \in {"--loc", "--comments", "--labels", "--jumps",
                            "--eol", "--fwjumps", "--backjumps", "--badjumps"}
                   \/ startswith(arg, "--print=")
           THEN /\ write(
                    (CASE arg = "--loc" -> str(stats.loc)
                       [] arg = "--comments" -> str(stats.comments)
                       [] arg = "--labels" ->
                              str(Cardinality(DOMAIN stats.labels))
                       [] arg = "--jumps" ->
                              str(Cardinality(DOMAIN stats.jumps))
                       [] arg = "--eol" -> str(stats.eol)
                       [] arg = "--fwjumps" -> str(counted.fwjumps)
                       [] arg = "--backjumps" -> str(counted.backjumps)
                       [] arg = "--badjumps" -> str(counted.badjumps)
                       [] OTHER -> split(arg, "=")[2]) \o "\n")
                /\ UNCHANGED <<pc, f, stats, buffer, exit_code, err>>
           ELSE /\ Terminate(10, "Unknown argument.")
                /\ UNCHANGED <<f, files, stats, buffer>>
    /\ UNCHANGED <<args, stdin_read, first_line, order, stdout, jumpstats>>

\* main, lines 345-347: the loop over args[1:] is at its end, the with
\* statement closes f and main returns.
StatEnd ==
    /\ pc = "stats"
    /\ argi > Len(args)
    /\ pc' = "done"
    /\ UNCHANGED <<args, stdin_read, first_line, order, stats, stdout,
                   jumpstats, argi, f, files, buffer, exit_code, err>>

Next ==
    \/ Startup
    \/ \E raw \in Lines : ReadLine(raw)
    \/ EndOfInput
    \/ StatArg
    \/ StatEnd

Spec == Init /\ [][Next]_vars


-----------------------------------------------------------------------------
(* The validator alone: one instruction line, of any opcode of              *)
(* instruction_dict and any operands, is scanned after the header.          *)

\* One operand of each kind match_pattern tells apart.
Operands == {"GF@a", "int@1", "int", "x"}

OperandLists == UNION {[1..n -> Operands] : n \in 0..MaxOperands}

\* The state of main's loop once it has read the header line.
InitValidate ==
    /\ pc = "scan"
    /\ args = <<>>
    /\ stdin_read = <<".IPPcode24">>
    /\ first_line = FALSE
    /\ order = 0
    /\ stats = [Stats EXCEPT !.eol = 1]
    /\ stdout = <<>>
    /\ jumpstats = <<>>
    /\ argi = 1
    /\ f = ""
    /\ files = EmptyDict
    /\ buffer = <<>>
    /\ exit_code = 0
    /\ err = ""

\* The one instruction line is read.
ScanInstruction(opcode, operands) ==
    ReadLine(join(" ", <<opcode>> \o operands))

NextValidate ==
    /\ stats.eol = 1
    /\ \E opcode \in Opcodes, operands \in OperandLists :
           ScanInstruction(opcode, operands)

SpecValidate == InitValidate /\ [][NextValidate]_vars

-----------------------------------------------------------------------------
(* What the properties below read off a state *)

\* A line that is neither blank nor a comment line.
IsCode(raw) == strip(raw) # "" /\ ~startswith(strip(raw), "#")

\* The instruction lines read so far: those after the first line.
CodeLines ==
    IF stdin_read = <<>> THEN <<>> ELSE SelectSeq(Tail(stdin_read), IsCode)

\* The words of an instruction line, its comment left out.
Words(raw) == split_ws(split1(strip(raw), "#")[1])

\* The lines read so far that are neither blank nor comment lines.
NonDiscarded == SelectSeq(stdin_read, IsCode)

HeaderError == "Missing or incorrect '.IPPcode24' header."

\* The jump analysis has run.
Analysed == jumpstats # <<>>

\* The printed instructions that define label n.
LabelDefs(n) ==
    {i \in DOMAIN stdout :
        stdout[i].opcode = "LABEL" /\ stdout[i].args[1].value = n}

\* The printed instructions that jump to n.
JumpRefs(n) ==
    {i \in DOMAIN stdout :
        stdout[i].opcode \in JumpOpcodes /\ stdout[i].args[1].value = n}

Targets ==
    {stdout[i].args[1].value :
        i \in {j \in DOMAIN stdout : stdout[j].opcode \in JumpOpcodes}}

Defined == {n \in Targets : LabelDefs(n) # {}}

Greatest(S) == CHOOSE x \in S : \A y \in S : y <= x

Least(S) == CHOOSE x \in S : \A y \in S : x <= y

LastRef(n) == Greatest(JumpRefs(n))

DefPos(n) == Least(LabelDefs(n))

\* How often opcode op was printed, and where first.
Count(op) == Cardinality({i \in DOMAIN stdout : stdout[i].opcode = op})

FirstUse(op) == Least({i \in DOMAIN stdout : stdout[i].opcode = op})

UsedOpcodes == {stdout[i].opcode : i \in DOMAIN stdout}

RECURSIVE TotalCount(_)
TotalCount(S) ==
    IF S = {} THEN 0
    ELSE LET op == CHOOSE x \in S : TRUE
         IN  Count(op) + TotalCount(S \ {op})

\* Opcode p is picked before opcode q: more uses, or as many and seen first.
Before(p, q) ==
    Count(p) > Count(q) \/ (Count(p) = Count(q) /\ FirstUse(p) < FirstUse(q))

\* The kinds of token each role of a signature takes.
RoleAccepts ==
    {<<"var", "var">>, <<"symb", "const">>, <<"symb", "var">>,
     <<"type", "type">>, <<"label", "label">>}

ValidationErrors ==
    {"Not enough arguments provided", "Too many arguments provided",
     "Argument must be a variable", "Argument must be a variable or constant",
     "Argument must be a type", "Argument must be a label"}

\* The (type, value) pair a constant operand stands for.
Decoded(raw) ==
    LET k == find(raw, "@", 1)
    IN  [type |-> SubSeq(raw, 1, k - 1), value |-> From(raw, k + 1)]

-----------------------------------------------------------------------------
(* Properties *)

\* C1: while no error has ended the run, the global order counter equals
\* stats.loc and the number of instruction lines read after the header, and
\* the printed instructions carry the positions 1..N in this order.
C1_PositionsSequential ==
    pc \in {"scan", "stats", "done"} =>
        /\ order = stats.loc
        /\ order = Len(CodeLines)
        /\ Len(stdout) = order
        /\ \A i \in DOMAIN stdout : stdout[i].order = i

\* C1, its case: a run ended without error, with several instructions and
\* with blank or comment lines among them.
C1_Witness ==
    /\ pc = "done"
    /\ order >= 2
    /\ Len(stdin_read) > order + 1

\* C2: an instruction line of a known opcode is handed to print_xml (order
\* becomes 1 and its opcode is counted) exactly when it has as many operands
\* as its signature and each token is of a kind its role takes; every other
\* line ends the run with status 23 and a validation message, nothing printed
\* and no statistic map changed.
C2_ArityAndRoles ==
    Len(stdin_read) = 2 =>
        LET words == Words(stdin_read[2])
            opcode == words[1]
            tokens == match_all(Tail(words))[1]
            signature == instruction_dict[opcode]
            fits == /\ Len(tokens) = Len(signature)
                    /\ \A i \in DOMAIN signature :
                           <<signature[i], tokens[i].token_type>>
                               \in RoleAccepts
        IN  IF fits
            THEN /\ order = 1
                 /\ stats.used_instructions = <<<<opcode, 1>>>>
                 /\ err \notin ValidationErrors
            ELSE /\ pc = "exit"
                 /\ exit_code = 23
                 /\ err \in ValidationErrors
                 /\ order = 0
                 /\ stdout = <<>>
                 /\ stats.labels = EmptyDict
                 /\ stats.jumps = EmptyDict
                 /\ stats.used_instructions = <<>>

\* C2, its case: a three-operand instruction with a constant in a symb
\* place was accepted and printed.
C2_Witness ==
    /\ Len(stdin_read) = 2
    /\ pc = "scan"
    /\ order = 1
    /\ Len(stdout[1].args) = 3
    /\ stdout[1].args[3].type = "int"

\* C3: every constant operand of a printed instruction is printed as its own
\* sub-kind and its literal without the prefix; nil@nil as (nil, nil).
C3_ConstantDecoding ==
    \A i \in DOMAIN stdout :
        LET operands == Tail(Words(CodeLines[i]))
        IN  \A j \in DOMAIN operands :
                match_pattern(operands[j]) = <<Token("const", operands[j])>>
                    => /\ j \in DOMAIN stdout[i].args
                       /\ stdout[i].args[j] = Decoded(operands[j])

\* C4: after JUMP x, LABEL x, JUMP x the analysis counts one forward and one
\* backward jump, with one label and one jump reference.
C4_JumpScenario ==
    (Analysed /\ [i \in DOMAIN CodeLines |-> Words(CodeLines[i])]
                     = <<<<"JUMP", "x">>, <<"LABEL", "x">>, <<"JUMP", "x">>>>)
        => /\ jumpstats[1].fwjumps = 1
           /\ jumpstats[1].backjumps = 1
           /\ Cardinality(DOMAIN stats.labels) = 1
           /\ Cardinality(DOMAIN stats.jumps) = 1

\* C5: each name of the label map maps to the position of the one printed
\* LABEL instruction that defines it, and a second LABEL line of a defined
\* name ends the run with the duplicate-label error before it is printed.
C5_NoDuplicateLabel ==
    /\ \A n \in DOMAIN stats.labels : LabelDefs(n) = {stats.labels[n]}
    /\ \A i \in DOMAIN stdout :
           stdout[i].opcode = "LABEL"
               => stdout[i].args[1].value \in DOMAIN stats.labels
    /\ \A n \in DOMAIN stats.labels :
           Cardinality({i \in DOMAIN CodeLines :
                           Words(CodeLines[i]) = <<"LABEL", n>>}) >= 2
               => /\ pc = "exit"
                  /\ exit_code = 23
                  /\ err = "Duplicate label."
                  /\ Len(stdout) = order - 1

\* C5, its case: a second LABEL line of a defined name was read.
C5_Witness ==
    /\ err = "Duplicate label."
    /\ \E n \in DOMAIN stats.labels : stats.labels[n] < order

\* C6: the statistics requests leave the Run Statistics as the scan left
\* them, and no --frequent request fails.
C6_PostPassReadsOnly ==
    [][pc = "stats" => (stats' = stats /\ err' # "ValueError")]_vars

\* C7: the header check is made on the first line that is neither blank nor
\* a comment line: the header error is raised for such a line that is not
\* .IPPcode24, before any instruction is counted, and for no other line.
C7_HeaderAfterDiscarded ==
    /\ err = HeaderError
           => NonDiscarded # <<>> /\ strip(NonDiscarded[1]) # ".IPPcode24"
    /\ (NonDiscarded # <<>> /\ strip(NonDiscarded[1]) # ".IPPcode24")
           => /\ pc = "exit"
              /\ exit_code = 22
              /\ err = HeaderError
              /\ stats.loc = 0
              /\ order = 0

C9_FirstFrequent ==
    [][(/\ pc = "stats"
        /\ argi <= Len(args)
        /\ args[argi] = "--frequent"
        /\ \A j \in 1..(argi - 1) : args[j] # "--frequent")
       => LET picked == {buffer'[i] : i \in DOMAIN buffer'}
              last == CHOOSE p \in picked :
                          \A q \in picked \ {p} : Before(q, p)
          IN  /\ pc' = "stats"
              /\ err' = ""
              /\ picked \subseteq UsedOpcodes
              /\ \A p \in picked, q \in UsedOpcodes \ picked : Before(p, q)
              /\ TotalCount(picked) * 100 >= stats.loc * 35
              /\ picked # {}
                     => (TotalCount(picked) - Count(last)) * 100
                            < stats.loc * 35
              /\ \A i, j \in DOMAIN buffer' :
                     i < j => str_lt(buffer'[i], buffer'[j])
              /\ files'[f] = files[f] \o join(",", buffer') \o "\n"
              /\ stats.loc = 0 => buffer' = <<>>]_vars

\* C9, its case: the first --frequent request picked two opcodes.
C9_Witness ==
    /\ pc = "stats"
    /\ argi = 3
    /\ args[2] = "--frequent"
    /\ Len(buffer) = 2

=============================================================================
